---- MODULE Spec2Model ----
(***************************************************************************)
(* chain-utils: five command-line programs that fetch block heights and    *)
(* timestamps and do arithmetic on them.                                   *)
(*                                                                         *)
(*   heimdall_hf_block_calculator      src/heimdall_hf_block_calculator.go *)
(*                                     lines 1-124                         *)
(*   bor_average_blocktime_calculator  same file, lines 127-426            *)
(*   heimdall_average_blocktime_calc.  src/heimdall_average_blocktime_     *)
(*                                     calculator.go lines 1-148           *)
(*   bor_hf_block_calculator           same file, lines 151-408            *)
(*   heimdall_block_time_estimator     src/unnamed/part_000 lines 30-145   *)
(*                                                                         *)
(* Strings are sequences of one-character strings.  An unsigned 64-bit     *)
(* value is a tuple of four 16-bit limbs, least significant first; a       *)
(* math/big natural is a normalised limb sequence of any length.           *)
(***************************************************************************)
EXTENDS Integers, Sequences, FiniteSets, TLC

VARIABLES
    \* ---- one rpcCall invocation (the retry loop) ----
    rpcPc,      \* "idle" | "loop" | "ok" | "reqerr" | "exhausted"
    method,     \* JSON-RPC method of the call
    urlOk,      \* whether http.NewRequestWithContext accepts rpcURL
    attempt,    \* the loop counter
    lastErr,    \* lastErr of rpcCall
    out,        \* the caller's *out
    rpcErr,     \* the error rpcCall returned ("nil" while none)
    wire,       \* responses to the requests client.Do sent, in order
    sleeps      \* durations passed to time.Sleep, in order (milliseconds)

rpcVars == <<rpcPc, method, urlOk, attempt, lastErr, out, rpcErr, wire, sleeps>>

VARIABLES
    \* ---- one hexToUint64 call ----
    hexPc,      \* "idle" | "ready" | "done"
    hexSrc,     \* the uint64 the argument was formatted from, if it was
    hexIn,      \* the argument h
    hexRes      \* the (uint64, error) returned

hexVars == <<hexPc, hexSrc, hexIn, hexRes>>

VARIABLES
    \* ---- one resolution of a lookback target ----
    resPc,      \* "ready" | "done"
    resIn,      \* the program, the latest height and the target
    resOut      \* (height, ok)

resVars == <<resPc, resIn, resOut>>

VARIABLES
    \* ---- one run of one program ----
    prog,           \* which of the five programs runs
    pc,             \* the blocking call main is at
    exit,           \* "running" | "returned" | "panic" | "exit1"
    urlFlagOk,      \* whether the -base / -rpc URL makes a valid request
    flagTarget,     \* -target of bor_hf: [ok, val], val in milliseconds
    flagAvg,        \* -avg of bor_hf, in milliseconds per block
    stdout,         \* lines written to standard output, in order
    stderr,         \* lines written to standard error, in order
    latestHeight,   \* latestHeight / n / h1
    latestTime,     \* latestTime / now / t1, in milliseconds
    earliestHeight, \* earliestHeight (Heimdall programs)
    idx,            \* index of the loop iteration to run next
    heights,        \* heights of bor_average: the resolved targets
    infos,          \* infos of bor_average: height -> timestamp
    httpCount,      \* HTTP requests sent so far in this run
    ctxElapsed,     \* time since main created ctx (programs with a deadline)
    reqLatency,     \* time the server took over the last request
    reqAborted      \* whether the last request was cut off by a timeout

timeVars == <<ctxElapsed, reqLatency, reqAborted>>

runVars == <<prog, pc, exit, urlFlagOk, flagTarget, flagAvg, stdout, stderr,
             latestHeight, latestTime, earliestHeight, idx, heights, infos,
             httpCount, timeVars>>

VARIABLES
    \* ---- one getJSON call ----
    getPc,      \* "idle" | "ready" | "done"
    getIn,      \* whether the URL makes a request, and the server's answer
    getRet,     \* the error returned ("nil" for none)
    getSent,    \* GETs put on the network by the call
    getDecoded  \* whether the decoder has run on the body

getVars == <<getPc, getIn, getRet, getSent, getDecoded>>

vars == <<rpcVars, hexVars, resVars, runVars, getVars>>

------------------------------------------------------------------------------
(* Generic helpers *)

Range(s) == {s[i] : i \in 1..Len(s)}

RECURSIVE SumSeq(_)
SumSeq(s) == IF s = <<>> THEN 0 ELSE Head(s) + SumSeq(Tail(s))

RECURSIVE Rep(_, _)
Rep(c, k) == IF k = 0 THEN <<>> ELSE <<c>> \o Rep(c, k - 1)

------------------------------------------------------------------------------
(* rpcCall: constants of the Bor programs *)

maxRetries == 3

\* retryBackoff = 600 * time.Millisecond, in milliseconds
retryBackoff == 600

Methods == {"eth_blockNumber", "eth_getBlockByNumber"}

\* Strings the endpoint may send where a hex quantity is expected.
WireHex ==
    { <<>>,
      <<"0", "x", "6", "4">>,
      <<"0", "x", "3", "e", "8">>,
      <<"0", "x", "9", "c", "4", "0">>,
      <<"0", "x", "1", "e", "8", "4", "8", "0">>,
      <<"0", "x", "z">> }

\* The zero value of the result type T: what "result": null, or a response
\* without a result, decodes to.
\* A decoded value is [nil, text]: a string is never nil; a *block is nil or
\* has its Timestamp as text.
ZeroResult(m) ==
    IF m = "eth_blockNumber"
    THEN [nil |-> FALSE, text |-> <<>>]
    ELSE [nil |-> TRUE, text |-> <<>>]

\* Values decoded.Result can take for a method: a string for
\* eth_blockNumber, a *block for eth_getBlockByNumber.
Results(m) ==
    {ZeroResult(m)} \cup {[nil |-> FALSE, text |-> h] : h \in WireHex}

ErrMsgs == {"e1", "e2"}

\* What one client.Do plus Decode can produce.
Outcomes(m) ==
    {[kind |-> "transport", msg |-> e, result |-> ZeroResult(m)] : e \in ErrMsgs}
    \cup {[kind |-> "decode", msg |-> e, result |-> ZeroResult(m)] : e \in ErrMsgs}
    \cup {[kind |-> "rpcerror", msg |-> e, result |-> r] :
            e \in ErrMsgs, r \in Results(m)}
    \cup {[kind |-> "ok", msg |-> "", result |-> r] : r \in Results(m)}

\* The three `continue` branches of the loop body.
attemptFailsNoRpcError(o) == o.kind \in {"transport", "decode"}

attemptFails(o) == o.kind \in {"transport", "decode", "rpcerror"}

\* lastErr = err / errors.New(decoded.Error.Message)
errOf(o) == [kind |-> o.kind, msg |-> o.msg]

\* for attempt := 0; attempt < maxRetries; attempt++
loopCondOffByOne(a) == a <= maxRetries

loopCondTwice(a) == a < 2 * maxRetries

loopCond(a) == a < maxRetries

\* retryBackoff * time.Duration(attempt+1)
backoffFromZero(a) == retryBackoff * a

backoff(a) == retryBackoff * (a + 1)

\* fmt.Errorf("rpc %s failed after %d attempts: %v", method, maxRetries, lastErr)
exhaustedError(m, e) ==
    [kind |-> "exhausted", method |-> m, attempts |-> maxRetries, cause |-> e]

NoErr == [kind |-> "nil", msg |-> ""]

NoRpcErr == [kind |-> "nil", method |-> "", attempts |-> 0, cause |-> NoErr]

\* The error of http.NewRequestWithContext, returned as it is.
requestError(m) ==
    [kind |-> "request", method |-> m, attempts |-> 0, cause |-> NoErr]

\* The state of a call that has just entered rpcCall.
rpcEntry(m, u, o) ==
    /\ rpcPc' = "loop"
    /\ method' = m
    /\ urlOk' = u
    /\ attempt' = 0
    /\ lastErr' = NoErr
    /\ out' = o
    /\ rpcErr' = NoRpcErr
    /\ wire' = <<>>
    /\ sleeps' = <<>>

\* One iteration of the loop body, against an endpoint that answers with
\* one of the outcomes os.
RpcAttemptWith(os) ==
    /\ rpcPc = "loop"
    /\ loopCond(attempt)
    /\ IF ~urlOk
       THEN /\ rpcPc' = "reqerr"
            /\ rpcErr' = requestError(method)
            /\ UNCHANGED <<method, urlOk, attempt, lastErr, out, wire, sleeps>>
       ELSE \E o \in os :
              /\ wire' = Append(wire, o)
              /\ IF attemptFails(o)
                 THEN /\ lastErr' = errOf(o)
                      /\ sleeps' = Append(sleeps, backoff(attempt))
                      /\ attempt' = attempt + 1
                      /\ UNCHANGED <<rpcPc, out, rpcErr>>
                 ELSE /\ out' = o.result
                      /\ rpcPc' = "ok"
                      /\ UNCHANGED <<attempt, lastErr, sleeps, rpcErr>>
              /\ UNCHANGED <<method, urlOk>>

RpcAttempt == RpcAttemptWith(Outcomes(method))

\* The return after the loop.
RpcExhaust ==
    /\ rpcPc = "loop"
    /\ ~loopCond(attempt)
    /\ rpcPc' = "exhausted"
    /\ rpcErr' = exhaustedError(method, lastErr)
    /\ UNCHANGED <<method, urlOk, attempt, lastErr, out, wire, sleeps>>

\* What the caller's variable holds before the call: var hex string /
\* var respBlock *block.
CallerOut(m) == {ZeroResult(m)}

------------------------------------------------------------------------------
(* hexToUint64, and the %x formatting of getBlockTimestamp *)

\* One limb holds 16 bits; a uint64 is Uint64Limbs limbs.
LimbBase == 2 ^ 16

Uint64Limbs == 64 \div 16

DecDigits == <<"0", "1", "2", "3", "4", "5", "6", "7", "8", "9">>

LowerLetters ==
    <<"a", "b", "c", "d", "e", "f", "g", "h", "i", "j", "k", "l", "m",
      "n", "o", "p", "q", "r", "s", "t", "u", "v", "w", "x", "y", "z">>

UpperLetters ==
    <<"A", "B", "C", "D", "E", "F", "G", "H", "I", "J", "K", "L", "M",
      "N", "O", "P", "Q", "R", "S", "T", "U", "V", "W", "X", "Y", "Z">>

IndexOf(seq, c) == CHOOSE i \in 1..Len(seq) : seq[i] = c

\* math/big MaxBase: the digit value given to a character that is no digit
\* is MaxBase + 1.
MaxBase == 62

\* The digit value big.Int.SetString gives a character in a base <= 36:
\* '0'-'9', then 'a'-'z' and 'A'-'Z' both as 10..35.
DecValue == [c \in Range(DecDigits) |-> IndexOf(DecDigits, c) - 1]

LowerValue == [c \in Range(LowerLetters) |-> IndexOf(LowerLetters, c) + 9]

UpperValue == [c \in Range(UpperLetters) |-> IndexOf(UpperLetters, c) + 9]

digitVal(c) ==
    IF c \in DOMAIN DecValue THEN DecValue[c]
    ELSE IF c \in DOMAIN LowerValue THEN LowerValue[c]
    ELSE IF c \in DOMAIN UpperValue THEN UpperValue[c]
    ELSE MaxBase + 1

\* z * m + a on a normalised limb sequence (least significant limb first).
RECURSIVE mulAdd(_, _, _)
mulAdd(z, m, a) ==
    IF z = <<>>
    THEN IF a = 0 THEN <<>> ELSE <<a>>
    ELSE LET t == Head(z) * m + a
         IN  <<t % LimbBase>> \o mulAdd(Tail(z), m, t \div LimbBase)

\* The natural that the digit string s denotes in the base, on top of acc.
RECURSIVE scanDigits(_, _, _)
scanDigits(s, base, acc) ==
    IF s = <<>> THEN acc
    ELSE scanDigits(Tail(s), base, mulAdd(acc, base, digitVal(Head(s))))

\* bi.SetString(h, base): an optional sign, then at least one digit, then
\* the end of the string; a zero magnitude is never negative.
SetString(h, base) ==
    LET signed == h # <<>> /\ Head(h) \in {"+", "-"}
        digits == IF signed THEN Tail(h) ELSE h
        valid  == /\ digits # <<>>
                  /\ \A i \in 1..Len(digits) : digitVal(digits[i]) < base
        abs    == IF valid THEN scanDigits(digits, base, <<>>) ELSE <<>>
    IN  [ok  |-> valid,
         neg |-> valid /\ signed /\ Head(h) = "-" /\ abs # <<>>,
         abs |-> abs]

\* bi.Sign()
Sign(bi) == IF bi.abs = <<>> THEN 0 ELSE IF bi.neg THEN -1 ELSE 1

\* bi.IsUint64()
IsUint64(bi) == ~bi.neg /\ Len(bi.abs) <= Uint64Limbs

\* bi.Uint64(): the low 64 bits.
Uint64(bi) ==
    IF Len(bi.abs) >= Uint64Limbs
    THEN SubSeq(bi.abs, 1, Uint64Limbs)
    ELSE bi.abs \o Rep(0, Uint64Limbs - Len(bi.abs))

ZeroUint64 == Rep(0, Uint64Limbs)

\* strings.HasPrefix(h, "0x") || strings.HasPrefix(h, "0X")
hasHexPrefixLowerOnly(h) ==
    Len(h) >= 2 /\ h[1] = "0" /\ h[2] = "x"

hasHexPrefix(h) ==
    Len(h) >= 2 /\ h[1] = "0" /\ h[2] \in {"x", "X"}

hexOk(v) == [ok |-> TRUE, val |-> v, err |-> ""]

hexErr(e) == [ok |-> FALSE, val |-> ZeroUint64, err |-> e]

hexToUint64(h0) ==
    LET h == IF hasHexPrefix(h0) THEN SubSeq(h0, 3, Len(h0)) ELSE h0
    IN  IF h = <<>> THEN hexErr("empty hex string")
        ELSE LET bi == SetString(h, 16)
             IN  IF ~bi.ok THEN hexErr("invalid hex")
                 ELSE IF Sign(bi) < 0 \/ ~IsUint64(bi)
                      THEN hexErr("out of uint64 range")
                      ELSE hexOk(Uint64(bi))

\* v shifted right by four bits, and its low four bits.
RECURSIVE Div16(_)
Div16(v) ==
    IF v = <<>> THEN <<>>
    ELSE <<(v[1] \div 16)
           + (IF Len(v) > 1 THEN (v[2] % 16) * (LimbBase \div 16) ELSE 0)>>
         \o Div16(Tail(v))

Mod16(v) == v[1] % 16

\* The digits the verb %x (lower case) or %X (upper case) writes for a
\* uint64: most significant first, no leading zeros, "0" for zero.
hexDigit(d, upper) ==
    IF d < 10 THEN DecDigits[d + 1]
    ELSE IF upper THEN UpperLetters[d - 9] ELSE LowerLetters[d - 9]

RECURSIVE fmtHex(_, _)
fmtHex(v, upper) ==
    IF Div16(v) = ZeroUint64
    THEN <<hexDigit(Mod16(v), upper)>>
    ELSE fmtHex(Div16(v), upper) \o <<hexDigit(Mod16(v), upper)>>

\* fmt.Sprintf("0x%x", height), and the same digits under the other
\* prefixes hexToUint64 accepts.
HexPrefixes == { <<>>, <<"0", "x">>, <<"0", "X">> }

toHex(v, prefix, upper) == prefix \o fmtHex(v, upper)

\* Sample limbs and the uint64 values built from them (0 and 2^64 - 1
\* among them).
SampleLimbs == {0, 1, 10, 32768, 43981, 65535}

SampleValues == [1..Uint64Limbs -> SampleLimbs]

\* Argument strings that are not made by toHex: an optional prefix, an
\* optional sign, a run of one digit of any length up to MaxRun, then at
\* most one more character.
MaxRun == 17

RunChars == {"0", "1", "f", "F"}

TailChars == {"0", "9", "a", "F", "g", "x", "-", "+", "_", " "}

Signs == { <<>>, <<"-">>, <<"+">> }

RawInputs ==
    { p \o sg \o Rep(c, k) \o t :
        p \in HexPrefixes, sg \in Signs, c \in RunChars, k \in 0..MaxRun,
        t \in {<<>>} \cup {<<x>> : x \in TailChars} }

NoSrc == [has |-> FALSE, val |-> ZeroUint64]

\* A height is formatted for a request (getBlockTimestamp).
HexFormat ==
    /\ hexPc = "idle"
    /\ \E v \in SampleValues, p \in HexPrefixes, u \in BOOLEAN :
         /\ hexSrc' = [has |-> TRUE, val |-> v]
         /\ hexIn' = toHex(v, p, u)
    /\ hexPc' = "ready"
    /\ UNCHANGED hexRes

\* A string arrives from elsewhere (a response's number or timestamp).
HexReceive ==
    /\ hexPc = "idle"
    /\ \E h \in RawInputs :
         /\ hexSrc' = NoSrc
         /\ hexIn' = h
    /\ hexPc' = "ready"
    /\ UNCHANGED hexRes

HexParse ==
    /\ hexPc = "ready"
    /\ hexRes' = hexToUint64(hexIn)
    /\ hexPc' = "done"
    /\ UNCHANGED <<hexSrc, hexIn>>

HexIdle ==
    /\ hexPc = "idle"
    /\ hexSrc = NoSrc
    /\ hexIn = <<>>
    /\ hexRes = hexErr("")

------------------------------------------------------------------------------
(* Lookback targets: target.resolve of bor_average_blocktime_calculator   *)
(* and the lookback test of heimdall_average_blocktime_calculator.        *)
(* Heights stay far below 2^63 here, so uint64 and int64 arithmetic is    *)
(* plain integer arithmetic.                                              *)

\* func (t target) resolve(n uint64) (uint64, bool)
resolveOffByOne(t, n) ==
    IF t.kind = "relative"
    THEN IF t.delta >= 0
         THEN [h |-> n + t.delta, ok |-> TRUE]
         ELSE LET d == -t.delta
              IN  IF d >= n THEN [h |-> 0, ok |-> FALSE]
                  ELSE [h |-> n - d, ok |-> TRUE]
    ELSE IF t.kind = "absolute"
    THEN IF t.value > n THEN [h |-> 0, ok |-> FALSE]
         ELSE [h |-> t.value, ok |-> TRUE]
    ELSE [h |-> 0, ok |-> FALSE]

resolve(t, n) ==
    IF t.kind = "relative"
    THEN IF t.delta >= 0
         THEN [h |-> n + t.delta, ok |-> TRUE]
         ELSE LET d == -t.delta
              IN  IF d > n THEN [h |-> 0, ok |-> FALSE]
                  ELSE [h |-> n - d, ok |-> TRUE]
    ELSE IF t.kind = "absolute"
    THEN IF t.value > n THEN [h |-> 0, ok |-> FALSE]
         ELSE [h |-> t.value, ok |-> TRUE]
    ELSE [h |-> 0, ok |-> FALSE]

\* target := latestHeight - lb; if target < earliestHeight { SKIP; continue }
\* ok says that the block at h is fetched.
lookbackTarget(latest, earliest, lb) ==
    LET target == latest - lb
    IN  [h |-> target, ok |-> ~(target < earliest)]

\* lookbacks := []int64{10_000, 100_000, 1_000_000, 1_500_000}
lookbacks == <<10000, 100000, 1000000, 1500000>>

\* Heights and offsets the resolutions are tried on: everything up to
\* MaxSmall, and the values around 1000 and around the lookbacks.
MaxSmall == 3

SampleHeights == (0..MaxSmall) \cup {100, 500, 1000, 2000}

SampleDeltas ==
    {-d : d \in (0..(MaxSmall + 1)) \cup {100, 500, 999, 1000, 1001, 2000}}
    \cup {1, 500}

TargetKinds == {"relative", "absolute", "other"}

BorResolveInputs ==
    {[prog |-> "bor", n |-> n, kind |-> k, delta |-> dl, value |-> v,
      earliest |-> 0, lb |-> 0] :
        n \in SampleHeights, k \in TargetKinds, dl \in SampleDeltas,
        v \in {0, 1000, 1001}}

HeimdallResolveInputs ==
    {[prog |-> "heimdall", n |-> n, kind |-> "relative", delta |-> -lb,
      value |-> 0, earliest |-> e, lb |-> lb] :
        n \in SampleHeights \cup {9999, 10000, 10001, 100000, 1200000, 1500001},
        e \in (0..MaxSmall) \cup {5000, 200000},
        lb \in Range(lookbacks)}

BorResolve ==
    /\ resPc = "ready"
    /\ resIn.prog = "bor"
    /\ resOut' = resolve([kind |-> resIn.kind, delta |-> resIn.delta,
                          value |-> resIn.value], resIn.n)
    /\ resPc' = "done"
    /\ UNCHANGED resIn

HeimdallLookback ==
    /\ resPc = "ready"
    /\ resIn.prog = "heimdall"
    /\ resOut' = lookbackTarget(resIn.n, resIn.earliest, resIn.lb)
    /\ resPc' = "done"
    /\ UNCHANGED resIn

ResIdle ==
    /\ resPc = "idle"
    /\ resIn = [prog |-> "", n |-> 0, kind |-> "", delta |-> 0, value |-> 0,
                earliest |-> 0, lb |-> 0]
    /\ resOut = [h |-> 0, ok |-> FALSE]

------------------------------------------------------------------------------
(* REST fetches of the Heimdall programs.  Times are milliseconds; in the  *)
(* Heimdall programs they are counted from the hardcoded target instant.   *)
(* A response field is [txt, val]: txt says whether the string parses      *)
(* ("ok"), is empty ("empty") or is malformed ("bad"); val is its value.   *)

Field(v) == [txt |-> "ok", val |-> v]

EmptyField == [txt |-> "empty", val |-> 0]

BadField == [txt |-> "bad", val |-> 0]

Response(tr, st, dec, h, e, t) ==
    [transport |-> tr, status |-> st, decodes |-> dec,
     height |-> h, earliest |-> e, time |-> t]

\* A request that gets no response, an error status with a JSON error
\* body, and a 200 whose body is no JSON.
FailedResponses ==
    { Response(FALSE, 0, FALSE, EmptyField, EmptyField, EmptyField),
      Response(TRUE, 404, TRUE, EmptyField, EmptyField, EmptyField),
      Response(TRUE, 500, FALSE, EmptyField, EmptyField, EmptyField),
      Response(TRUE, 200, FALSE, EmptyField, EmptyField, EmptyField) }

StatusHeights == {100, 1000, 10500, 1200000}

StatusEarliest == {1, 5000}

StatusTimes == {-86400000, -1300, -1299, 0, 1}

\* What GET {base}/status can answer.
StatusResponses ==
    FailedResponses
    \cup {Response(TRUE, 200, TRUE, Field(h), Field(e), Field(t)) :
            h \in StatusHeights, e \in StatusEarliest, t \in StatusTimes}
    \cup { Response(TRUE, 200, TRUE, BadField, Field(1), Field(0)),
           Response(TRUE, 200, TRUE, Field(1000), EmptyField, Field(0)),
           Response(TRUE, 200, TRUE, Field(1000), Field(1), BadField) }

BlockTimes == {-100000000, 5000}

\* What GET {base}/block?height=h can answer: a node has no block below
\* height 1, and answers such a request with an error body.
BlockResponses(h) ==
    FailedResponses
    \cup { Response(TRUE, 200, TRUE, EmptyField, EmptyField, EmptyField),
           Response(TRUE, 200, TRUE, EmptyField, EmptyField, BadField) }
    \cup (IF h >= 1
          THEN {Response(TRUE, 200, TRUE, Field(h), EmptyField, Field(t)) :
                  t \in BlockTimes}
          ELSE {})

\* getJSON: one GET; the error it returns ("nil" for none).
getJSONNoStatusCheck(u, resp) ==
    IF ~u THEN "request"
    ELSE IF ~resp.transport THEN "transport"
    ELSE IF ~resp.decodes THEN "decode"
    ELSE "nil"

getJSON(u, resp) ==
    IF ~u THEN "request"
    ELSE IF ~resp.transport THEN "transport"
    ELSE IF resp.status < 200 \/ resp.status >= 300 THEN "status"
    ELSE IF ~resp.decodes THEN "decode"
    ELSE "nil"

\* dec.Decode(out) is reached only past the status test.
getJSONDecodes(u, resp) ==
    /\ u
    /\ resp.transport
    /\ ~(resp.status < 200 \/ resp.status >= 300)

\* Requests a fetch puts on the network: none when the request cannot be
\* built.
sentAlways(u) == 1

sent(u) == IF u THEN 1 ELSE 0

\* The calls of getJSON that are checked: a URL that makes a request or not,
\* and every answer of the two endpoints.
GetInputs ==
    {[u |-> u, resp |-> r] :
        u \in BOOLEAN, r \in StatusResponses \cup BlockResponses(1000)}

\* One call of getJSON, from entry to return.
GetJSON ==
    /\ getPc = "ready"
    /\ getPc' = "done"
    /\ getRet' = getJSON(getIn.u, getIn.resp)
    /\ getSent' = getSent + sent(getIn.u)
    /\ getDecoded' = getJSONDecodes(getIn.u, getIn.resp)
    /\ UNCHANGED getIn

GetIdle ==
    /\ getPc = "idle"
    /\ getIn = [u |-> TRUE,
                resp |-> Response(FALSE, 0, FALSE, EmptyField, EmptyField, EmptyField)]
    /\ getRet = "nil"
    /\ getSent = 0
    /\ getDecoded = FALSE

\* getLatest: (height, t, earliest, err)
getLatest(u, resp) ==
    LET e == getJSON(u, resp)
        fail(k) == [err |-> k, height |-> 0, time |-> 0, earliest |-> 0]
    IN  IF e # "nil" THEN fail(e)
        ELSE IF resp.height.txt # "ok" THEN fail("parse latest height")
        ELSE IF resp.earliest.txt # "ok" THEN fail("parse earliest height")
        ELSE IF resp.time.txt # "ok" THEN fail("parse latest time")
        ELSE [err |-> "nil", height |-> resp.height.val,
              time |-> resp.time.val, earliest |-> resp.earliest.val]

\* getBlockTime: (time, err)
getBlockTime(u, resp) ==
    LET e == getJSON(u, resp)
    IN  IF e # "nil" THEN [err |-> e, time |-> 0]
        ELSE IF resp.time.txt = "empty" THEN [err |-> "empty block time", time |-> 0]
        ELSE IF resp.time.txt # "ok" THEN [err |-> "parse block time", time |-> 0]
        ELSE [err |-> "nil", time |-> resp.time.val]

line(tag, v, w) == [tag |-> tag, v |-> v, w |-> w]

------------------------------------------------------------------------------
(* Timeouts.  The unit of time is 5 seconds. *)

\* -timeout of the Heimdall programs: 15 seconds.
timeout == 3

\* httpTimeout of the Bor programs: 20 seconds.
httpTimeout == 4

\* Times a server takes to answer.
Latencies == {0, 2, 5}

NoLimit == [set |-> FALSE, val |-> 0]

Limit(v) == [set |-> TRUE, val |-> v]

\* http.Client{Timeout: ...}: the limit on one request.  The estimator
\* calls http.Get, whose client has none.
clientTimeout(p) ==
    IF p \in {"heimdall_hf", "heimdall_avg"} THEN Limit(timeout)
    ELSE IF p \in {"bor_hf", "bor_avg"} THEN Limit(httpTimeout)
    ELSE NoLimit

\* The deadline of the ctx every request of a run is made with, counted
\* from the start of main: context.WithTimeout(Background(), *timeout) in
\* the Heimdall programs, context.Background() in the Bor programs.
ctxDeadline(p) ==
    IF p \in {"heimdall_hf", "heimdall_avg"} THEN Limit(timeout)
    ELSE NoLimit

Min(a, b) == IF a <= b THEN a ELSE b

\* One request made at time `now` of ctx to a server that takes `lat`:
\* whether it goes on the network, whether a timeout cuts it off, and the
\* time it takes.
request(p, u, now, lat) ==
    LET c == clientTimeout(p)
        d == ctxDeadline(p)
        expired == d.set /\ now >= d.val
        byClient == c.set /\ lat > c.val
        byCtx == d.set /\ now + lat > d.val
    IN  IF ~u THEN [started |-> FALSE, aborted |-> FALSE, took |-> 0]
        ELSE IF expired THEN [started |-> FALSE, aborted |-> TRUE, took |-> 0]
        ELSE IF byClient /\ byCtx
        THEN [started |-> TRUE, aborted |-> TRUE, took |-> Min(c.val, d.val - now)]
        ELSE IF byClient THEN [started |-> TRUE, aborted |-> TRUE, took |-> c.val]
        ELSE IF byCtx THEN [started |-> TRUE, aborted |-> TRUE, took |-> d.val - now]
        ELSE [started |-> TRUE, aborted |-> FALSE, took |-> lat]

\* What the client sees of the server's answer: c.Do returns an error for
\* a request that was cut off.
answer(resp, rq) ==
    IF rq.aborted
    THEN Response(FALSE, 0, FALSE, EmptyField, EmptyField, EmptyField)
    ELSE resp

\* The passage of time over one request.
timeStep(p, u, rq, lat) ==
    /\ ctxElapsed' = IF ctxDeadline(p).set THEN ctxElapsed + rq.took ELSE ctxElapsed
    /\ reqLatency' = IF u THEN lat ELSE reqLatency
    /\ reqAborted' = rq.aborted

------------------------------------------------------------------------------
(* heimdall_hf_block_calculator: main *)

\* targetTimeStr: the origin of the Heimdall programs' times.
targetTime == 0

\* avgBlockTime := 1.30 seconds, in milliseconds.
avgBlockTime == 1300

\* if delta < 0
targetInPastInverted(delta) == delta > 0

targetInPast(delta) == delta < 0

\* math.Round(delta.Seconds() / avg): to the nearest, halves away from zero.
roundBlocksToZero(delta, avg) ==
    IF delta >= 0 THEN delta \div avg ELSE -((-delta) \div avg)

roundBlocks(delta, avg) ==
    IF delta >= 0
    THEN (2 * delta + avg) \div (2 * avg)
    ELSE -((2 * (-delta) + avg) \div (2 * avg))

\* int64(delta.Seconds() / avgBlockTime): truncation toward zero.
truncBlocks(delta, avg) ==
    IF delta >= 0 THEN delta \div avg ELSE -((-delta) \div avg)

\* The whole of main: one GET, then arithmetic and printing.
HfMain ==
    /\ prog = "heimdall_hf"
    /\ pc = "getLatest"
    /\ exit = "running"
    /\ \E resp \in StatusResponses, lat \in Latencies :
         LET rq == request(prog, urlFlagOk, ctxElapsed, lat)
             r == getLatest(urlFlagOk, answer(resp, rq))
             delta == targetTime - r.time
             blocksToAdd == truncBlocks(delta, avgBlockTime)
             predicted == r.height + blocksToAdd
         IN  /\ timeStep(prog, urlFlagOk, rq, lat)
             /\ IF r.err # "nil"
                THEN /\ exit' = "panic"
                     /\ stderr' = Append(stderr, line("panic: get latest", 0, 0))
                     /\ UNCHANGED <<stdout, latestHeight, latestTime, earliestHeight>>
                ELSE /\ exit' = "returned"
                     /\ latestHeight' = r.height
                     /\ latestTime' = r.time
                     /\ earliestHeight' = r.earliest
                     /\ stdout' =
                          IF targetInPast(delta)
                          THEN stdout \o
                               << line("Current block", r.height, r.time),
                                  line("Target time is in the past", targetTime, 0) >>
                          ELSE stdout \o
                               << line("Current block", r.height, r.time),
                                  line("Future block prediction", 0, 0),
                                  line("target time", targetTime, 0),
                                  line("avg block time", avgBlockTime, 0),
                                  line("time delta", delta, 0),
                                  line("blocks to add", blocksToAdd, 0),
                                  line("predicted height", predicted, 0) >>
                     /\ UNCHANGED stderr
    /\ httpCount' = httpCount + sent(urlFlagOk)
    /\ UNCHANGED <<prog, pc, urlFlagOk, flagTarget, flagAvg, idx, heights, infos>>

------------------------------------------------------------------------------
(* heimdall_average_blocktime_calculator: main *)

\* getLatest and the first Printf.
AvgGetLatest ==
    /\ prog = "heimdall_avg"
    /\ pc = "getLatest"
    /\ exit = "running"
    /\ \E resp \in StatusResponses, lat \in Latencies :
         LET rq == request(prog, urlFlagOk, ctxElapsed, lat)
             r == getLatest(urlFlagOk, answer(resp, rq))
         IN  /\ timeStep(prog, urlFlagOk, rq, lat)
             /\ IF r.err # "nil"
                THEN /\ exit' = "panic"
                     /\ stderr' = Append(stderr, line("panic: get latest", 0, 0))
                     /\ UNCHANGED <<pc, stdout, latestHeight, latestTime,
                                    earliestHeight, idx>>
                ELSE /\ pc' = "lookback"
                     /\ idx' = 1
                     /\ latestHeight' = r.height
                     /\ latestTime' = r.time
                     /\ earliestHeight' = r.earliest
                     /\ stdout' = Append(stdout, line("Current block", r.height, r.earliest))
                     /\ UNCHANGED <<exit, stderr>>
    /\ httpCount' = httpCount + sent(urlFlagOk)
    /\ UNCHANGED <<prog, urlFlagOk, flagTarget, flagAvg, heights, infos>>

\* formatElapsed prints the magnitude.
absDuration(d) == IF d < 0 THEN -d ELSE d

\* One iteration of `for _, lb := range lookbacks`, and the return after
\* the last one.
AvgLookback ==
    /\ prog = "heimdall_avg"
    /\ pc = "lookback"
    /\ exit = "running"
    /\ idx <= Len(lookbacks)
    /\ LET lb == lookbacks[idx]
           t  == lookbackTarget(latestHeight, earliestHeight, lb)
       IN  IF ~t.ok
           THEN /\ stdout' = Append(stdout, line("SKIP", lb, t.h))
                /\ UNCHANGED <<httpCount, timeVars>>
           ELSE \E resp \in BlockResponses(t.h), lat \in Latencies :
                  LET rq == request(prog, urlFlagOk, ctxElapsed, lat)
                      r == getBlockTime(urlFlagOk, answer(resp, rq))
                      elapsed == latestTime - r.time
                  IN  /\ timeStep(prog, urlFlagOk, rq, lat)
                      /\ httpCount' = httpCount + sent(rq.started)
                      /\ stdout' =
                           IF r.err # "nil"
                           THEN Append(stdout, line("ERROR fetching height", lb, t.h))
                           ELSE stdout \o
                                << line("from height", lb, t.h),
                                   line("elapsed", absDuration(elapsed), 0),
                                   line("avg block", elapsed, lb) >>
    /\ idx' = idx + 1
    /\ exit' = IF idx + 1 > Len(lookbacks) THEN "returned" ELSE "running"
    /\ UNCHANGED <<prog, pc, urlFlagOk, flagTarget, flagAvg, stderr,
                   latestHeight, latestTime, earliestHeight, heights, infos>>

------------------------------------------------------------------------------
(* heimdall_block_time_estimator: main *)

targetBlock == 8788500

\* The lookback of the reference block: h1 - 2000.
estimatorLookback == 2000

\* http.Get, ioutil.ReadAll, json.Unmarshal: no test of the status code.
httpGetJSON(resp) ==
    IF ~resp.transport THEN "transport"
    ELSE IF ~resp.decodes THEN "decode"
    ELSE "nil"

\* What GET latest-span can answer.
SpanResponses ==
    FailedResponses
    \cup {Response(TRUE, 200, TRUE, Field(h), EmptyField, EmptyField) :
            h \in {100, 2000, 2001, 8000000}}
    \cup {Response(TRUE, 200, TRUE, BadField, EmptyField, EmptyField)}

\* fetchHeight: (height, err)
fetchHeight(resp) ==
    LET e == httpGetJSON(resp)
    IN  IF e # "nil" THEN [err |-> e, height |-> 0]
        ELSE IF resp.height.txt # "ok" THEN [err |-> "strconv.Atoi", height |-> 0]
        ELSE [err |-> "nil", height |-> resp.height.val]

\* fetchBlockTime: (time, err)
fetchBlockTime(resp) ==
    LET e == httpGetJSON(resp)
    IN  IF e # "nil" THEN [err |-> e, time |-> 0]
        ELSE IF resp.time.txt # "ok" THEN [err |-> "time.Parse", time |-> 0]
        ELSE [err |-> "nil", time |-> resp.time.val]

\* h1, err := fetchHeight()
EstFetchHeight ==
    /\ prog = "estimator"
    /\ pc = "fetchHeight"
    /\ exit = "running"
    /\ \E resp \in SpanResponses, lat \in Latencies :
         LET rq == request(prog, TRUE, ctxElapsed, lat)
             r == fetchHeight(answer(resp, rq))
         IN  /\ timeStep(prog, TRUE, rq, lat)
             /\ IF r.err # "nil"
                THEN /\ exit' = "panic"
                     /\ stderr' = Append(stderr, line("panic", 0, 0))
                     /\ UNCHANGED <<pc, stdout, latestHeight>>
                ELSE /\ pc' = "fetchBlockTime(h1)"
                     /\ latestHeight' = r.height
                     /\ stdout' = Append(stdout, line("Current height", r.height, 0))
                     /\ UNCHANGED <<exit, stderr>>
    /\ httpCount' = httpCount + 1
    /\ UNCHANGED <<prog, urlFlagOk, flagTarget, flagAvg, latestTime,
                   earliestHeight, idx, heights, infos>>

\* t1, err := fetchBlockTime(h1)
EstFetchTime ==
    /\ prog = "estimator"
    /\ pc = "fetchBlockTime(h1)"
    /\ exit = "running"
    /\ \E resp \in BlockResponses(latestHeight), lat \in Latencies :
         LET rq == request(prog, TRUE, ctxElapsed, lat)
             r == fetchBlockTime(answer(resp, rq))
         IN  /\ timeStep(prog, TRUE, rq, lat)
             /\ IF r.err # "nil"
                THEN /\ exit' = "panic"
                     /\ stderr' = Append(stderr, line("panic", 0, 0))
                     /\ UNCHANGED <<pc, stdout, latestTime>>
                ELSE /\ pc' = "fetchBlockTime(h1-2000)"
                     /\ latestTime' = r.time
                     /\ stdout' = Append(stdout, line("Current block time", r.time, 0))
                     /\ UNCHANGED <<exit, stderr>>
    /\ httpCount' = httpCount + 1
    /\ UNCHANGED <<prog, urlFlagOk, flagTarget, flagAvg, latestHeight,
                   earliestHeight, idx, heights, infos>>

\* t2, err := fetchBlockTime(h1 - 2000), and the rest of main.
EstFetchReference ==
    /\ prog = "estimator"
    /\ pc = "fetchBlockTime(h1-2000)"
    /\ exit = "running"
    /\ \E resp \in BlockResponses(latestHeight - estimatorLookback),
          lat \in Latencies :
         LET rq == request(prog, TRUE, ctxElapsed, lat)
             r == fetchBlockTime(answer(resp, rq))
             blocksLeft == targetBlock - latestHeight
         IN  /\ timeStep(prog, TRUE, rq, lat)
             /\ IF r.err # "nil"
                THEN /\ exit' = "panic"
                     /\ stderr' = Append(stderr, line("panic", 0, 0))
                     /\ UNCHANGED stdout
                ELSE /\ exit' = "returned"
                     /\ stdout' = stdout \o
                          << line("Block time 2000 blocks ago", r.time, 0),
                             line("Average block time", latestTime - r.time,
                                  estimatorLookback),
                             line("Estimated block mining time",
                                  latestTime - r.time, blocksLeft) >>
                     /\ UNCHANGED stderr
    /\ httpCount' = httpCount + 1
    /\ UNCHANGED <<prog, pc, urlFlagOk, flagTarget, flagAvg, latestHeight,
                   latestTime, earliestHeight, idx, heights, infos>>

------------------------------------------------------------------------------
(* The JSON-RPC fetches of the Bor programs *)

\* Block numbers and timestamps (seconds) an endpoint reports in a run.
RunNumbers ==
    { <<"0", "x", "6", "4">>,
      <<"0", "x", "3", "e", "8">>,
      <<"0", "x", "9", "c", "4", "0">>,
      <<"0", "x", "1", "e", "8", "4", "8", "0">>,
      <<"0", "x", "z">> }

RunTimestamps ==
    { <<>>,
      <<"0", "x", "6", "4">>,
      <<"0", "x", "3", "e", "8">> }

RunOutcomes(m) ==
    { [kind |-> "transport", msg |-> "e1", result |-> ZeroResult(m)],
      [kind |-> "decode", msg |-> "e1", result |-> ZeroResult(m)],
      [kind |-> "rpcerror", msg |-> "e1", result |-> ZeroResult(m)],
      [kind |-> "ok", msg |-> "", result |-> ZeroResult(m)] }
    \cup {[kind |-> "ok", msg |-> "", result |-> [nil |-> FALSE, text |-> h]] :
            h \in IF m = "eth_blockNumber" THEN RunNumbers ELSE RunTimestamps}

\* client.Do returns an error for a request that was cut off.
AbortedOutcomes(m) ==
    {[kind |-> "transport", msg |-> "e1", result |-> ZeroResult(m)]}

RpcReturned == rpcPc \in {"ok", "reqerr", "exhausted"}

\* A uint64 below 2^31 as an integer.
fromUint64(v) == v[1] + LimbBase * v[2]

\* getLatestBlockNumber, from the return of its rpcCall
getLatestBlockNumber(p, o) ==
    IF p # "ok" THEN hexErr("rpc")
    ELSE hexToUint64(o.text)

\* getBlockTimestamp, from the return of its rpcCall
getBlockTimestamp(p, o) ==
    IF p # "ok" THEN hexErr("rpc")
    ELSE IF o.nil \/ o.text = <<>> THEN hexErr("empty block/timestamp")
    ELSE hexToUint64(o.text)

\* One attempt of the rpcCall a run is in.
RunRpcAttempt ==
    /\ exit = "running"
    /\ prog \in {"bor_hf", "bor_avg"}
    /\ \E lat \in Latencies :
         LET rq == request(prog, urlOk, ctxElapsed, lat)
         IN  /\ RpcAttemptWith(IF rq.aborted THEN AbortedOutcomes(method)
                                ELSE RunOutcomes(method))
             /\ timeStep(prog, urlOk, rq, lat)
    /\ httpCount' = httpCount + sent(urlOk)
    /\ UNCHANGED <<prog, pc, exit, urlFlagOk, flagTarget, flagAvg, stdout,
                   stderr, latestHeight, latestTime, earliestHeight, idx,
                   heights, infos>>

RunRpcExhaust ==
    /\ exit = "running"
    /\ prog \in {"bor_hf", "bor_avg"}
    /\ RpcExhaust
    /\ UNCHANGED runVars

------------------------------------------------------------------------------
(* bor_hf_block_calculator: main *)

\* parseTarget has failed, or the flag is a time.
TargetFlags ==
    { [ok |-> FALSE, val |-> 0] }
    \cup {[ok |-> TRUE, val |-> t] : t \in {1000, 100000, 101075, 103000, 86500000}}

\* -avg, in milliseconds per block: 2.0 and the default 2.15.
AvgFlags == {2000, 2150}

\* if predicted < 0 { predicted = 0 }
clampHeight(h) == IF h < 0 THEN 0 ELSE h

\* n, err := getLatestBlockNumber(...)
BorHfGotNumber ==
    /\ prog = "bor_hf"
    /\ pc = "getLatestBlockNumber"
    /\ exit = "running"
    /\ RpcReturned
    /\ LET r == getLatestBlockNumber(rpcPc, out)
       IN  IF ~r.ok
           THEN /\ exit' = "exit1"
                /\ stderr' = Append(stderr, line("error: get latest block number", 0, 0))
                /\ UNCHANGED <<pc, latestHeight, rpcVars>>
           ELSE /\ pc' = "getBlockTimestamp"
                /\ latestHeight' = fromUint64(r.val)
                /\ rpcEntry("eth_getBlockByNumber", urlFlagOk,
                            ZeroResult("eth_getBlockByNumber"))
                /\ UNCHANGED <<exit, stderr>>
    /\ UNCHANGED <<prog, urlFlagOk, flagTarget, flagAvg, stdout, latestTime,
                   earliestHeight, idx, heights, infos, httpCount, timeVars>>

\* curTS, err := getBlockTimestamp(...), and the rest of main.
BorHfGotTimestamp ==
    /\ prog = "bor_hf"
    /\ pc = "getBlockTimestamp"
    /\ exit = "running"
    /\ RpcReturned
    /\ LET r == getBlockTimestamp(rpcPc, out)
           now == fromUint64(r.val) * 1000
           delta == flagTarget.val - now
           blocksRounded == roundBlocks(delta, flagAvg)
           predicted == clampHeight(latestHeight + blocksRounded)
       IN  IF ~r.ok
           THEN /\ exit' = "exit1"
                /\ stderr' = Append(stderr, line("error: get timestamp for current block", 0, 0))
                /\ UNCHANGED <<stdout, latestTime>>
           ELSE IF ~flagTarget.ok
           THEN /\ exit' = "exit1"
                /\ stderr' = Append(stderr, line("error: parse target time", 0, 0))
                /\ latestTime' = now
                /\ UNCHANGED stdout
           ELSE /\ exit' = "returned"
                /\ latestTime' = now
                /\ stdout' = stdout \o
                     << line("Current block", latestHeight, now),
                        line("Target time", flagTarget.val, 0),
                        line("Avg block", flagAvg, 0),
                        line("time delta", delta, 0),
                        line("Estimated blocks", blocksRounded, 0),
                        line("Predicted block at target", 0, 0),
                        line("predicted height", predicted, 0) >>
                /\ UNCHANGED stderr
    /\ UNCHANGED <<prog, pc, urlFlagOk, flagTarget, flagAvg, latestHeight,
                   earliestHeight, idx, heights, infos, httpCount, timeVars, rpcVars>>

------------------------------------------------------------------------------
(* bor_average_blocktime_calculator: main *)

\* targets: {n, n-40000, n-280000, n-560000, n-1120000}
borTargets ==
    << [kind |-> "relative", delta |-> 0, value |-> 0],
       [kind |-> "relative", delta |-> -40000, value |-> 0],
       [kind |-> "relative", delta |-> -280000, value |-> 0],
       [kind |-> "relative", delta |-> -560000, value |-> 0],
       [kind |-> "relative", delta |-> -1120000, value |-> 0] >>

\* Resolve valid heights: the heights of the targets that resolve, in order.
RECURSIVE resolveAll(_, _)
resolveAll(ts, n) ==
    IF ts = <<>> THEN <<>>
    ELSE LET r == resolve(Head(ts), n)
         IN  (IF r.ok THEN <<r.h>> ELSE <<>>) \o resolveAll(Tail(ts), n)

\* infos[h] = info{height: h, timestamp: ts}
putInfo(m, h, ts) ==
    [x \in (DOMAIN m) \cup {h} |-> IF x = h THEN ts ELSE m[x]]

\* The per-reference output without the test h == n.
RECURSIVE referenceLinesWithSelf(_, _, _)
referenceLinesWithSelf(ts, n, m) ==
    IF ts = <<>> THEN <<>>
    ELSE LET r == resolve(Head(ts), n)
             rest == referenceLinesWithSelf(Tail(ts), n, m)
         IN  IF ~r.ok THEN rest
             ELSE IF r.h \notin DOMAIN m THEN rest
             ELSE << line("reference", n - r.h, r.h),
                     line("elapsed", absDuration(m[n] - m[r.h]), 0),
                     line("avg block", m[n] - m[r.h], n - r.h) >> \o rest

\* The header and the per-reference output.
RECURSIVE referenceLines(_, _, _)
referenceLines(ts, n, m) ==
    IF ts = <<>> THEN <<>>
    ELSE LET r == resolve(Head(ts), n)
             rest == referenceLines(Tail(ts), n, m)
         IN  IF ~r.ok \/ r.h = n THEN rest
             ELSE IF r.h \notin DOMAIN m THEN rest
             ELSE << line("reference", n - r.h, r.h),
                     line("elapsed", absDuration(m[n] - m[r.h]), 0),
                     line("avg block", m[n] - m[r.h], n - r.h) >> \o rest

borAvgReport(n, m) ==
    <<line("Current block", n, m[n])>> \o referenceLines(borTargets, n, m)

\* n, err := getLatestBlockNumber(...), and the resolution of the targets.
BorAvgGotNumber ==
    /\ prog = "bor_avg"
    /\ pc = "getLatestBlockNumber"
    /\ exit = "running"
    /\ RpcReturned
    /\ LET r == getLatestBlockNumber(rpcPc, out)
           n == fromUint64(r.val)
       IN  IF ~r.ok
           THEN /\ exit' = "exit1"
                /\ stderr' = Append(stderr, line("error: get latest block number", 0, 0))
                /\ UNCHANGED <<pc, latestHeight, heights, idx, rpcVars>>
           ELSE /\ pc' = "fetch"
                /\ latestHeight' = n
                /\ heights' = resolveAll(borTargets, n)
                /\ idx' = 1
                /\ rpcEntry("eth_getBlockByNumber", urlFlagOk,
                            ZeroResult("eth_getBlockByNumber"))
                /\ UNCHANGED <<exit, stderr>>
    /\ UNCHANGED <<prog, urlFlagOk, flagTarget, flagAvg, stdout, latestTime,
                   earliestHeight, infos, httpCount, timeVars>>

\* One iteration of `for _, h := range heights`; after the last one, the
\* test whether infos holds n, and the report if it does.
BorAvgFetched ==
    /\ prog = "bor_avg"
    /\ pc = "fetch"
    /\ exit = "running"
    /\ RpcReturned
    /\ idx <= Len(heights)
    /\ LET h == heights[idx]
           r == getBlockTimestamp(rpcPc, out)
           m == IF r.ok THEN putInfo(infos, h, fromUint64(r.val)) ELSE infos
       IN  /\ infos' = m
           /\ stderr' = IF r.ok THEN stderr
                        ELSE Append(stderr, line("warning: failed to fetch block", h, 0))
           /\ idx' = idx + 1
           /\ IF idx < Len(heights)
              THEN /\ rpcEntry("eth_getBlockByNumber", urlFlagOk,
                               ZeroResult("eth_getBlockByNumber"))
                   /\ UNCHANGED <<pc, exit, stdout, latestTime>>
              ELSE IF latestHeight \in DOMAIN m
              THEN /\ exit' = "returned"
                   /\ latestTime' = m[latestHeight]
                   /\ stdout' = stdout \o borAvgReport(latestHeight, m)
                   /\ UNCHANGED <<pc, rpcVars>>
              ELSE /\ pc' = "ensure"
                   /\ rpcEntry("eth_getBlockByNumber", urlFlagOk,
                               ZeroResult("eth_getBlockByNumber"))
                   /\ UNCHANGED <<exit, stdout, latestTime>>
    /\ UNCHANGED <<prog, urlFlagOk, flagTarget, flagAvg, latestHeight,
                   earliestHeight, heights, httpCount, timeVars>>

\* Ensure n present: the second fetch of block n, and the report.
BorAvgEnsured ==
    /\ prog = "bor_avg"
    /\ pc = "ensure"
    /\ exit = "running"
    /\ RpcReturned
    /\ LET r == getBlockTimestamp(rpcPc, out)
           m == putInfo(infos, latestHeight, fromUint64(r.val))
       IN  IF ~r.ok
           THEN /\ exit' = "exit1"
                /\ stderr' = Append(stderr, line("error: failed to fetch latest block", latestHeight, 0))
                /\ UNCHANGED <<stdout, infos, latestTime>>
           ELSE /\ exit' = "returned"
                /\ infos' = m
                /\ latestTime' = m[latestHeight]
                /\ stdout' = stdout \o borAvgReport(latestHeight, m)
                /\ UNCHANGED stderr
    /\ UNCHANGED <<prog, pc, urlFlagOk, flagTarget, flagAvg, latestHeight,
                   earliestHeight, idx, heights, httpCount, timeVars, rpcVars>>

------------------------------------------------------------------------------
(* Specifications *)

RpcIdle ==
    /\ rpcPc = "idle"
    /\ method = "eth_blockNumber"
    /\ urlOk = TRUE
    /\ attempt = 0
    /\ lastErr = NoErr
    /\ out = ZeroResult("eth_blockNumber")
    /\ rpcErr = NoRpcErr
    /\ wire = <<>>
    /\ sleeps = <<>>

RunIdle ==
    /\ prog = "none"
    /\ pc = "none"
    /\ exit = "returned"
    /\ urlFlagOk = TRUE
    /\ flagTarget = [ok |-> FALSE, val |-> 0]
    /\ flagAvg = 0
    /\ stdout = <<>>
    /\ stderr = <<>>
    /\ latestHeight = 0
    /\ latestTime = 0
    /\ earliestHeight = 0
    /\ idx = 0
    /\ heights = <<>>
    /\ infos = <<>>
    /\ httpCount = 0
    /\ ctxElapsed = 0
    /\ reqLatency = 0
    /\ reqAborted = FALSE

\* One rpcCall, from its entry to its return.
InitRpc ==
    /\ rpcPc = "loop"
    /\ method \in Methods
    /\ urlOk \in BOOLEAN
    /\ attempt = 0
    /\ lastErr = NoErr
    /\ out \in CallerOut(method)
    /\ rpcErr = NoRpcErr
    /\ wire = <<>>
    /\ sleeps = <<>>
    /\ HexIdle
    /\ ResIdle
    /\ RunIdle
    /\ GetIdle

NextRpc ==
    \/ RpcAttempt /\ UNCHANGED <<hexVars, resVars, runVars, getVars>>
    \/ RpcExhaust /\ UNCHANGED <<hexVars, resVars, runVars, getVars>>

SpecRpc == InitRpc /\ [][NextRpc]_vars

\* One hexToUint64 call on a formatted or a received string.
InitHex == HexIdle /\ RpcIdle /\ ResIdle /\ RunIdle /\ GetIdle

NextHex ==
    \/ HexFormat /\ UNCHANGED <<rpcVars, resVars, runVars, getVars>>
    \/ HexReceive /\ UNCHANGED <<rpcVars, resVars, runVars, getVars>>
    \/ HexParse /\ UNCHANGED <<rpcVars, resVars, runVars, getVars>>

SpecHex == InitHex /\ [][NextHex]_vars

\* One resolution of one lookback target against one latest height.
InitResolve ==
    /\ resPc = "ready"
    /\ resIn \in BorResolveInputs \cup HeimdallResolveInputs
    /\ resOut = [h |-> 0, ok |-> FALSE]
    /\ RpcIdle
    /\ HexIdle
    /\ RunIdle
    /\ GetIdle

NextResolve ==
    \/ BorResolve /\ UNCHANGED <<rpcVars, hexVars, runVars, getVars>>
    \/ HeimdallLookback /\ UNCHANGED <<rpcVars, hexVars, runVars, getVars>>

SpecResolve == InitResolve /\ [][NextResolve]_vars

\* One getJSON call.
InitGet ==
    /\ getPc = "ready"
    /\ getIn \in GetInputs
    /\ getRet = "nil"
    /\ getSent = 0
    /\ getDecoded = FALSE
    /\ RpcIdle
    /\ HexIdle
    /\ ResIdle
    /\ RunIdle

NextGet == GetJSON /\ UNCHANGED <<rpcVars, hexVars, resVars, runVars>>

SpecGet == InitGet /\ [][NextGet]_vars

\* One run of one of the programs, from the start of main to its end.
Programs == {"heimdall_hf", "heimdall_avg", "estimator", "bor_hf", "bor_avg"}

BorPrograms == {"bor_hf", "bor_avg"}

FirstCall(p) ==
    IF p = "estimator" THEN "fetchHeight"
    ELSE IF p \in {"heimdall_hf", "heimdall_avg"} THEN "getLatest"
    ELSE "getLatestBlockNumber"

InitRun ==
    /\ prog \in Programs
    /\ pc = FirstCall(prog)
    /\ exit = "running"
    /\ urlFlagOk \in (IF prog = "estimator" THEN {TRUE} ELSE BOOLEAN)
    /\ flagTarget \in (IF prog = "bor_hf" THEN TargetFlags
                       ELSE {[ok |-> FALSE, val |-> 0]})
    /\ flagAvg \in (IF prog = "bor_hf" THEN AvgFlags ELSE {0})
    /\ stdout = <<>>
    /\ stderr = <<>>
    /\ latestHeight = 0
    /\ latestTime = 0
    /\ earliestHeight = 0
    /\ idx = 0
    /\ heights = <<>>
    /\ infos = <<>>
    /\ httpCount = 0
    /\ ctxElapsed = 0
    /\ reqLatency = 0
    /\ reqAborted = FALSE
    /\ IF prog \in BorPrograms
       THEN /\ rpcPc = "loop"
            /\ method = "eth_blockNumber"
            /\ urlOk = urlFlagOk
            /\ attempt = 0
            /\ lastErr = NoErr
            /\ out = ZeroResult("eth_blockNumber")
            /\ rpcErr = NoRpcErr
            /\ wire = <<>>
            /\ sleeps = <<>>
       ELSE RpcIdle
    /\ HexIdle
    /\ ResIdle
    /\ GetIdle

NextRun ==
    \/ HfMain /\ UNCHANGED <<rpcVars, hexVars, resVars, getVars>>
    \/ AvgGetLatest /\ UNCHANGED <<rpcVars, hexVars, resVars, getVars>>
    \/ AvgLookback /\ UNCHANGED <<rpcVars, hexVars, resVars, getVars>>
    \/ EstFetchHeight /\ UNCHANGED <<rpcVars, hexVars, resVars, getVars>>
    \/ EstFetchTime /\ UNCHANGED <<rpcVars, hexVars, resVars, getVars>>
    \/ EstFetchReference /\ UNCHANGED <<rpcVars, hexVars, resVars, getVars>>
    \/ RunRpcAttempt /\ UNCHANGED <<hexVars, resVars, getVars>>
    \/ RunRpcExhaust /\ UNCHANGED <<hexVars, resVars, getVars>>
    \/ BorHfGotNumber /\ UNCHANGED <<hexVars, resVars, getVars>>
    \/ BorHfGotTimestamp /\ UNCHANGED <<hexVars, resVars, getVars>>
    \/ BorAvgGotNumber /\ UNCHANGED <<hexVars, resVars, getVars>>
    \/ BorAvgFetched /\ UNCHANGED <<hexVars, resVars, getVars>>
    \/ BorAvgEnsured /\ UNCHANGED <<hexVars, resVars, getVars>>

SpecRun == InitRun /\ [][NextRun]_vars

------------------------------------------------------------------------------
(* Properties of rpcCall, checked under SpecRpc *)

FailureKinds == {"transport", "decode", "rpcerror"}

\* C1: when attempts 1..k-1 fail and attempt k succeeds (k in 1..maxRetries),
\* rpcCall returns success with the result decoded from attempt k, having
\* sent exactly k requests: a successful response is always the last one
\* sent, every response before it is a failure, and the call has returned
\* nil with *out set to that response's result.
C1_SuccessOnAttemptK ==
    /\ \A i \in 1..Len(wire) :
         wire[i].kind = "ok" =>
           /\ i = Len(wire)
           /\ i <= maxRetries
           /\ \A j \in 1..(i - 1) : wire[j].kind \in FailureKinds
           /\ rpcPc = "ok"
           /\ rpcErr = NoRpcErr
           /\ out = wire[i].result
    /\ rpcPc = "ok" => (Len(wire) >= 1 /\ wire[Len(wire)].kind = "ok")

\* Two failed attempts, then success on the third.
C1_Witness ==
    /\ rpcPc = "ok"
    /\ Len(wire) = maxRetries
    /\ wire[1].kind = "transport"
    /\ wire[2].kind = "rpcerror"
    /\ out.text = <<"0", "x", "3", "e", "8">>

\* C2: when every attempt fails, rpcCall ends with the exhaustion error
\* after exactly maxRetries requests, never fewer and never more; the error
\* carries the failure of the last attempt, and the backoff slept in total
\* is at least retryBackoff * (1 + 2).
C2_ExhaustedAfterMaxAttempts ==
    /\ Len(wire) <= maxRetries
    /\ rpcPc = "exhausted" =>
         /\ Len(wire) = maxRetries
         /\ \A i \in 1..Len(wire) : wire[i].kind \in FailureKinds
         /\ rpcErr.kind = "exhausted"
         /\ rpcErr.cause = [kind |-> wire[maxRetries].kind,
                            msg |-> wire[maxRetries].msg]
         /\ SumSeq(sleeps) >= retryBackoff * (1 + 2)
    /\ (Len(wire) = maxRetries /\ \A i \in 1..Len(wire) : wire[i].kind \in FailureKinds)
         => \/ rpcPc = "exhausted"
            \/ rpcPc = "loop" /\ attempt = maxRetries /\ ENABLED RpcExhaust

\* Three failed attempts, the last one a JSON-RPC error.
C2_Witness ==
    /\ rpcPc = "exhausted"
    /\ Len(wire) = maxRetries
    /\ wire[1].kind = "transport"
    /\ wire[maxRetries].kind = "rpcerror"
    /\ rpcErr.cause.kind = "rpcerror"

\* C3: after failed attempt i (0-indexed) the sleep before the next attempt
\* is retryBackoff * (i + 1), and there is no sleep after the final failed
\* attempt (attempt maxRetries - 1).
C3_NoSleepAfterFinalAttempt ==
    /\ \A i \in 1..Len(sleeps) : sleeps[i] = retryBackoff * i
    /\ Len(sleeps) <= maxRetries - 1

------------------------------------------------------------------------------
(* Properties of hexToUint64, checked under SpecHex *)

HexChars ==
    {"0", "1", "2", "3", "4", "5", "6", "7", "8", "9",
     "a", "b", "c", "d", "e", "f", "A", "B", "C", "D", "E", "F"}

\* The argument without its optional 0x / 0X prefix.
Unprefixed(h) ==
    IF Len(h) >= 2 /\ h[1] = "0" /\ h[2] \in {"x", "X"}
    THEN SubSeq(h, 3, Len(h)) ELSE h

RECURSIVE StripZeros(_)
StripZeros(h) ==
    IF h # <<>> /\ Head(h) = "0" THEN StripZeros(Tail(h)) ELSE h

\* C4: for every uint64 v, hexToUint64 of the hexadecimal rendering of v,
\* with or without a 0x / 0X prefix, succeeds and returns exactly v.
C4_HexRoundTrip ==
    (hexPc = "done" /\ hexSrc.has) =>
        /\ hexRes.ok
        /\ hexRes.val = hexSrc.val

\* 2^64 - 1, written in upper case under the prefix 0X, has come back.
C4_Witness ==
    /\ hexPc = "done"
    /\ hexSrc.has
    /\ hexSrc.val = Rep(LimbBase - 1, Uint64Limbs)
    /\ hexIn = <<"0", "X">> \o Rep("F", 16)
    /\ hexRes.ok
    /\ hexRes.val = hexSrc.val

\* C5: hexToUint64 returns an error for every argument that is empty (also
\* after the prefix is stripped), contains a character that is no
\* hexadecimal digit, carries a negative sign (whatever the magnitude, zero
\* included), or denotes a magnitude above 2^64 - 1.
C5_HexRejects ==
    hexPc = "done" =>
        LET h == Unprefixed(hexIn)
        IN  ( \/ h = <<>>
              \/ \E i \in 1..Len(h) : h[i] \notin HexChars
              \/ Head(h) = "-"
              \/ Len(StripZeros(h)) > 16 )
            => (~hexRes.ok /\ hexRes.val = ZeroUint64)

\* The same without the two sign cases the code lets through: kept to show
\* which arguments the statement above fails on.
C5_HexRejectsUnsigned ==
    hexPc = "done" =>
        LET h == Unprefixed(hexIn)
        IN  ( \/ h = <<>>
              \/ \E i \in 1..Len(h) : h[i] \notin HexChars
              \/ Len(StripZeros(h)) > 16 )
            => ( \/ ~hexRes.ok
                 \/ /\ Head(h) \in {"+", "-"}
                    /\ Tail(h) # <<>>
                    /\ \A i \in 1..Len(Tail(h)) : Tail(h)[i] \in HexChars
                    /\ Head(h) = "-" => StripZeros(Tail(h)) = <<>>
                    /\ Len(StripZeros(Tail(h))) <= 16 )

------------------------------------------------------------------------------
(* Properties of target resolution, checked under SpecResolve *)

\* C6: against a latest height n, a relative target with offset -d (d >= 0)
\* resolves to n - d when d <= n and is unavailable (no error) when d > n;
\* in the Heimdall program a target below the earliest available height is
\* unavailable too.  For n = 1000: -2000 is unavailable, -500 gives 500 and
\* 0 gives 1000.
C6_LookbackResolution ==
    resPc = "done" =>
        /\ (resIn.prog = "bor" /\ resIn.kind = "relative" /\ resIn.delta <= 0) =>
             LET d == -resIn.delta
             IN  /\ d <= resIn.n => (resOut.ok /\ resOut.h = resIn.n - d)
                 /\ d > resIn.n => ~resOut.ok
        /\ resIn.prog = "heimdall" =>
             LET d == resIn.lb
             IN  /\ resIn.n - d < resIn.earliest => ~resOut.ok
                 /\ d > resIn.n => ~resOut.ok
                 /\ resIn.n - d >= resIn.earliest =>
                      (resOut.ok /\ resOut.h = resIn.n - d)

\* Latest height 1000 and offset -2000: unavailable.
C6_Witness ==
    /\ resPc = "done"
    /\ resIn.prog = "bor"
    /\ resIn.kind = "relative"
    /\ resIn.n = 1000
    /\ resIn.delta = -2000
    /\ ~resOut.ok

------------------------------------------------------------------------------
(* Claims about the runs of the programs *)

HasLine(tag) == \E i \in 1..Len(stdout) : stdout[i].tag = tag

LastLine == stdout[Len(stdout)]

C8_PredictedHeight ==
    /\ (prog = "heimdall_hf" /\ exit = "returned" /\ targetTime - latestTime >= 0)
         => LET delta == targetTime - latestTime
                k == LastLine.v - latestHeight
            IN  /\ LastLine.tag = "predicted height"
                /\ k * avgBlockTime <= delta
                /\ delta < (k + 1) * avgBlockTime
    /\ (prog = "bor_hf" /\ exit = "returned" /\ flagTarget.val - latestTime >= 0)
         => LET delta == flagTarget.val - latestTime
                k == LastLine.v - latestHeight
            IN  /\ LastLine.tag = "predicted height"
                /\ 2 * k * flagAvg - flagAvg <= 2 * delta
                /\ 2 * delta < 2 * k * flagAvg + flagAvg

\* H = 1000, delta = 86400 s, a = 2.0: 43200 blocks, height 44200.
C8_Witness ==
    /\ prog = "bor_hf"
    /\ exit = "returned"
    /\ latestHeight = 1000
    /\ flagTarget.val - latestTime = 86400000
    /\ flagAvg = 2000
    /\ \E i \in 1..Len(stdout) : stdout[i] = line("Estimated blocks", 43200, 0)
    /\ LastLine = line("predicted height", 44200, 0)

\* C9 (as stated): in the programs that sample lookback blocks, a lookback
\* that cannot be resolved or fetched never aborts the run: no run ends
\* abnormally at the fetch of a lookback block.
C9_LookbackFailureSkipped ==
    /\ (prog = "heimdall_avg" /\ pc = "lookback") => exit \in {"running", "returned"}
    /\ (prog = "bor_avg" /\ pc = "fetch") => exit \in {"running", "returned"}
    /\ (prog = "estimator" /\ pc = "fetchBlockTime(h1-2000)")
         => exit \in {"running", "returned"}

\* C10 (as stated): when a REST program aborts on the fetch of the latest
\* status, height or block time, nothing has been written to standard output.
C10_AbortWithoutOutput ==
    (/\ prog \in {"heimdall_hf", "heimdall_avg", "estimator"}
     /\ exit = "panic"
     /\ pc \in {"getLatest", "fetchHeight", "fetchBlockTime(h1)"})
        => stdout = <<>>

\* C10 (amended): a REST program that fails to fetch the latest status or
\* height aborts with a diagnostic, with nothing on standard output and no
\* further request; the estimator, when the fetch of the latest block's time
\* fails, aborts with the "Current height" line already written.
C10_AbortOutput ==
    /\ (prog \in {"heimdall_hf", "heimdall_avg"} /\ exit = "panic")
         => /\ pc = "getLatest"
            /\ stdout = <<>>
            /\ stderr = <<line("panic: get latest", 0, 0)>>
            /\ httpCount = IF urlFlagOk THEN 1 ELSE 0
    /\ (prog = "estimator" /\ exit = "panic" /\ pc = "fetchHeight")
         => /\ stdout = <<>>
            /\ stderr = <<line("panic", 0, 0)>>
            /\ httpCount = 1
    /\ (prog = "estimator" /\ exit = "panic" /\ pc = "fetchBlockTime(h1)")
         => /\ stdout = <<line("Current height", latestHeight, 0)>>
            /\ stderr = <<line("panic", 0, 0)>>
            /\ httpCount = 2

C10_Witness ==
    /\ prog = "estimator"
    /\ exit = "panic"
    /\ pc = "fetchBlockTime(h1)"
    /\ Len(stdout) = 1

------------------------------------------------------------------------------
(* Claims about getJSON *)

StatusInRange(resp) == resp.status >= 200 /\ resp.status < 300

\* The error getJSON returns, case by case, and whether it decoded.
GetJSONReturn ==
    LET u == getIn.u
        resp == getIn.resp
    IN  /\ (u /\ ~resp.transport) => (getRet = "transport" /\ ~getDecoded)
        /\ (u /\ resp.transport /\ ~StatusInRange(resp))
             => (getRet = "status" /\ ~getDecoded)
        /\ (u /\ resp.transport /\ StatusInRange(resp) /\ ~resp.decodes)
             => (getRet = "decode" /\ getDecoded)
        /\ (getRet = "nil")
             <=> (u /\ resp.transport /\ StatusInRange(resp) /\ resp.decodes)

------------------------------------------------------------------------------
(* Claims about the request timeout *)

\* C12 (as stated): in the programs that set a request timeout, a request
\* is cut off exactly when the server takes longer than the timeout over
\* that request, whatever time the earlier requests of the run have taken.
C12_TimeoutPerRequest ==
    (prog \in {"heimdall_hf", "heimdall_avg", "bor_hf", "bor_avg"})
        => (reqAborted <=> reqLatency > clientTimeout(prog).val)

\* C12 (supporting): what C12 says holds in the Bor programs, and in the
\* Heimdall prediction program, which makes one request.
C12_TimeoutPerRequestBor ==
    (prog \in {"heimdall_hf", "bor_hf", "bor_avg"})
        => (reqAborted <=> reqLatency > clientTimeout(prog).val)

------------------------------------------------------------------------------
(* Claims about the number of requests *)

\* C13 (as stated): no run sends more than 10 HTTP requests, retries
\* included.
C13_AtMostTenRequests == httpCount <= 10

\* The most requests a run of program p sends: every rpcCall of the Bor
\* programs makes up to maxRetries requests.
MaxRequests(p) ==
    IF p = "heimdall_hf" THEN 1
    ELSE IF p = "heimdall_avg" THEN 1 + Len(lookbacks)
    ELSE IF p = "estimator" THEN 3
    ELSE IF p = "bor_hf" THEN 2 * maxRetries
    ELSE IF p = "bor_avg" THEN (1 + Len(borTargets) + 1) * maxRetries
    ELSE 0

\* C13 (amended): a run sends at most 1 (Heimdall prediction), 5 (Heimdall
\* average), 3 (estimator), 6 (Bor prediction) or 21 (Bor average) HTTP
\* requests, retries included; a run that has ended takes no further step
\* and the count of requests never goes back.
C13_RequestBound ==
    /\ [](httpCount <= MaxRequests(prog))
    /\ [][exit = "running" /\ httpCount' >= httpCount]_vars

C13_Witness ==
    /\ prog = "bor_avg"
    /\ exit = "exit1"
    /\ pc = "ensure"
    /\ httpCount = 21

------------------------------------------------------------------------------
(* Claims about the heights the Bor average program fetches *)

\* C14 (as stated): target.resolve never yields a height above the latest
\* height n: a relative target with a positive offset and an absolute
\* target above n are reported unavailable, as is a target below 0.
C14_ResolveWithinLatest ==
    (resPc = "done" /\ resIn.prog = "bor") =>
        /\ resOut.ok => (resOut.h >= 0 /\ resOut.h <= resIn.n)
        /\ (resIn.kind = "relative" /\ resIn.delta > 0) => ~resOut.ok
        /\ (resIn.kind = "absolute" /\ resIn.value > resIn.n) => ~resOut.ok
        /\ (resIn.kind = "relative" /\ -resIn.delta > resIn.n) => ~resOut.ok

\* C14 (supporting): with the targets main is built with, every height
\* that is fetched lies in [0, n].
C14_FetchedWithinLatest ==
    prog = "bor_avg" =>
        \A i \in 1..Len(heights) : heights[i] >= 0 /\ heights[i] <= latestHeight

------------------------------------------------------------------------------
(* Claims about the output value of rpcCall *)

\* C15: rpcCall leaves *out as the caller passed it on every failing path
\* (a failed attempt, exhaustion, a request that cannot be built); *out is
\* written only by the step that returns nil, with the result of a response
\* that carries no error, and never after that.
C15_OutputFrame ==
    /\ [](rpcPc \in {"loop", "reqerr", "exhausted"} => out \in CallerOut(method))
    /\ [][/\ (rpcPc = "loop" /\ rpcPc' = "ok")
              => /\ wire'[Len(wire')].kind = "ok"
                 /\ out' = wire'[Len(wire')].result
          /\ ~(rpcPc = "loop" /\ rpcPc' = "ok") => out' = out]_vars

\* A call that ends exhausted although a response with an error field
\* carried a result.
C15_Witness ==
    /\ rpcPc = "exhausted"
    /\ out = ZeroResult(method)
    /\ \E i \in 1..Len(wire) :
         /\ wire[i].kind = "rpcerror"
         /\ wire[i].result # ZeroResult(method)

------------------------------------------------------------------------------
(* Claims about the report of the Bor average program *)

\* C16: the Bor average program reports only after the timestamp of the
\* latest block n is known, and every reference block it reports has a
\* height h < n that was fetched with its timestamp: n is never its own
\* reference and no average is taken over a block difference of zero.
C16_ReferencesBelowLatest ==
    prog = "bor_avg" =>
        /\ stdout # <<>> =>
             /\ exit = "returned"
             /\ latestHeight \in DOMAIN infos
             /\ stdout[1] = line("Current block", latestHeight, infos[latestHeight])
        /\ \A i \in 1..Len(stdout) :
             stdout[i].tag = "reference" =>
               LET h == stdout[i].w
               IN  /\ h < latestHeight
                   /\ h \in Range(heights)
                   /\ h \in DOMAIN infos
                   /\ stdout[i].v = latestHeight - h
                   /\ i + 2 <= Len(stdout)
                   /\ stdout[i + 2].tag = "avg block"
                   /\ stdout[i + 2].v = infos[latestHeight] - infos[h]
                   /\ stdout[i + 2].w = latestHeight - h
                   /\ stdout[i + 2].w # 0

\* A report with a reference block, after a run in which another fetch
\* failed.
C16_Witness ==
    /\ prog = "bor_avg"
    /\ exit = "returned"
    /\ latestHeight = 2000000
    /\ stderr # <<>>
    /\ \E i \in 1..Len(stdout) :
         stdout[i] = line("reference", 40000, 1960000)

====
